---- MODULE Spec2Model ----
(***************************************************************************)
(* ns_egret.EventDispatcher (src/src/egret/events/EventDispatcher.ts).     *)
(*                                                                         *)
(* One dispatcher object: its two listener maps, its declared target, the  *)
(* Event object handed to dispatchEvent, and the position of the           *)
(* notification loop of _notifyListener.  Listeners make calls on their    *)
(* event; in the specifications that say so they also throw, register and  *)
(* unregister, or dispatch in their turn, on this dispatcher or on a       *)
(* second one.  Sequences are 1-based here; the loop counters keep the     *)
(* source's 0-based values, so list[i] of the source is list[i + 1] below. *)
(***************************************************************************)
EXTENDS Integers, Sequences, FiniteSets, TLC

(***************************************************************************)
(* Input domains.                                                          *)
(***************************************************************************)
TypeKeys == {"x", "y"}
Listeners == {"A", "B", "C"}
\* Receivers and priorities of the registry-only specification.
Receivers == {"r1", "r2"}
Priorities == {-1, 0}
\* Receivers and priorities of the specification with dispatch.
DispatchReceivers == {"r1"}
DispatchPriorities == {0, 1}
\* Total number of bindings the explored registries hold: with dispatch,
\* and in the registry-only specification.
MaxBindings == 3
MaxRegistryBindings == 2
\* The same where listeners register and unregister while they are notified.
MaxLiveBindings == 3
\* The same where listeners dispatch while they are notified.
MaxNestedBindings == 2

\* Event.CAPTURING_PHASE, the value _notifyListener compares _eventPhase with.
CAPTURING_PHASE == 1
\* The capture phase and one phase that is not it.
EventPhases == {CAPTURING_PHASE, CAPTURING_PHASE + 1}

\* JavaScript values, tagged: undefined, an array, a boolean, a thrown error.
undefined == [tag |-> "undefined"]
Array(items) == [tag |-> "array", items |-> items]
Boolean(b) == [tag |-> "boolean", b |-> b]
Thrown(name) == [tag |-> "throw", name |-> name]
\* An identifier no scope declares: reading it throws a ReferenceError.
Undeclared == "undeclared"
\* What the free identifier `type` of _notifyListener can resolve to: the
\* value of a global of that name (one type key stands for them all, the
\* keys being interchangeable), or nothing at all.
AmbientTypes == {"x", Undeclared}

\* The dispatcher itself.
this == "this"

VARIABLES
    _eventsMap,         \* type -> bindings of the target/bubble phase
    _captureEventsMap,  \* type -> bindings of the capture phase
    target,             \* EventDispatcher.target
    ambientType,        \* what `type` denotes inside _notifyListener
    event,              \* the Event object of the current or the last dispatchEvent
    pc,                 \* "idle" | "loop" | "returned"
    frame,              \* locals of the running _notifyListener; detached
                        \* tells that the array `list` refers to is no
                        \* longer the one under its key
    invoked,            \* listeners called by that dispatchEvent, in order
    stopper,            \* loop index of the first listener that stopped immediately, or -1
    made,               \* what the listeners of that dispatchEvent did
    call,               \* the last public call and what it gave back
    heap,               \* the Event objects, by name
    running,            \* name of the Event object of the running dispatchEvent
    stack               \* the dispatchEvent calls that wait for a listener

vars == <<_eventsMap, _captureEventsMap, target, ambientType, event, pc, frame,
          invoked, stopper, made, call, heap, running, stack>>

\* What only nested dispatchEvent calls change.
nesting == <<heap, running, stack>>

registry == <<_eventsMap, _captureEventsMap>>

(***************************************************************************)
(* Object maps and arrays.                                                 *)
(***************************************************************************)
EmptyMap == [t \in {} |-> <<>>]

\* eventMap[type]
Lookup(eventMap, type) ==
    IF type \in DOMAIN eventMap THEN Array(eventMap[type]) ELSE undefined

\* eventMap[type] = list
Store(eventMap, type, list) ==
    [t \in (DOMAIN eventMap) \cup {type} |-> IF t = type THEN list ELSE eventMap[t]]

\* delete eventMap[type]
Delete(eventMap, type) ==
    [t \in (DOMAIN eventMap) \ {type} |-> eventMap[t]]

\* list.splice(index, 0, item)
SpliceInsert(list, index, item) ==
    SubSeq(list, 1, index) \o <<item>> \o SubSeq(list, index + 1, Len(list))

\* list.splice(index, 1)
SpliceRemove(list, index) ==
    SubSeq(list, 1, index) \o SubSeq(list, index + 2, Len(list))

\* list.push(item)
Push(list, item) == Append(list, item)

\* ToBoolean of a map entry: undefined is falsy, every array is truthy.
ToBoolean(v) == v.tag # "undefined"

\* a || b
Or(a, b) == IF ToBoolean(a) THEN a ELSE b

NoFrame == [eventMap |-> "none", key |-> "none", length |-> 0, i |-> 0,
            detached |-> FALSE]
NoCall == [op |-> "none", arg |-> "none", note |-> "none", value |-> undefined]

\* Number of bindings in the lists of eventMap under keys.
RECURSIVE SumLen(_, _)
SumLen(eventMap, keys) ==
    IF keys = {} THEN 0
    ELSE LET k == CHOOSE t \in keys : TRUE
         IN  Len(eventMap[k]) + SumLen(eventMap, keys \ {k})

(***************************************************************************)
(* addEventListener                                                        *)
(***************************************************************************)
\* Lines 81 and 118 always taking the target/bubble map.
SelectMapNameIgnoresCapture(useCapture) == "_eventsMap"

\* The map a registration or a removal goes to (lines 81 and 118).
SelectMapName(useCapture) ==
    IF useCapture THEN "_captureEventsMap" ELSE "_eventsMap"

MapOf(name) ==
    IF name = "_captureEventsMap" THEN _captureEventsMap ELSE _eventsMap

\* Line 91 with the comparison turned round.
TakesIndexAscending(bin, priority) == bin.priority >= priority

\* bin.priority <= priority (line 91)
TakesIndex(bin, priority) == bin.priority <= priority

\* bin.listener === listener (lines 88 and 126)
SameListener(bin, listener) == bin.listener = listener

\* The scan without the early return of lines 88-90.
RECURSIVE ScanFromNoReturn(_, _, _, _, _)
ScanFromNoReturn(list, listener, priority, i, insertIndex) ==
    IF i >= Len(list)
    THEN [found |-> FALSE, insertIndex |-> insertIndex]
    ELSE ScanFromNoReturn(list, listener, priority, i + 1,
                          IF insertIndex = -1 /\ list[i + 1].priority <= priority
                          THEN i ELSE insertIndex)

\* The scan of lines 86-94 from index i on: found is the early return of line
\* 89, insertIndex the value line 92 leaves.
RECURSIVE ScanFrom(_, _, _, _, _)
ScanFrom(list, listener, priority, i, insertIndex) ==
    IF i >= Len(list)
    THEN [found |-> FALSE, insertIndex |-> insertIndex]
    ELSE LET bin == list[i + 1]
         IN  IF SameListener(bin, listener)
             THEN [found |-> TRUE, insertIndex |-> insertIndex]
             ELSE ScanFrom(list, listener, priority, i + 1,
                           IF insertIndex = -1 /\ TakesIndex(bin, priority)
                           THEN i ELSE insertIndex)

Scan(list, listener, priority) == ScanFrom(list, listener, priority, 0, -1)

\* Lines 100-106: the list with the new binding in it.
Inserted(list, insertIndex, eventBin) ==
    IF insertIndex # -1
    THEN SpliceInsert(list, insertIndex, eventBin)
    ELSE Push(list, eventBin)

\* The selected map after addEventListener (lines 82-106).
AddedMap(eventMap, type, listener, thisObject, priority) ==
    LET list == Lookup(eventMap, type)
        eventBin == [listener |-> listener, thisObject |-> thisObject,
                     priority |-> priority]
    IN  IF ToBoolean(list)
        THEN LET scan == Scan(list.items, listener, priority)
             IN  IF scan.found
                 THEN eventMap
                 ELSE Store(eventMap, type,
                            Inserted(list.items, scan.insertIndex, eventBin))
        ELSE Store(eventMap, type, Inserted(<<>>, -1, eventBin))

addEventListener(type, listener, thisObject, useCapture, priority) ==
    LET name == SelectMapName(useCapture)
    IN  /\ _captureEventsMap' =
               IF name = "_captureEventsMap"
               THEN AddedMap(_captureEventsMap, type, listener, thisObject, priority)
               ELSE _captureEventsMap
        /\ _eventsMap' =
               IF name = "_eventsMap"
               THEN AddedMap(_eventsMap, type, listener, thisObject, priority)
               ELSE _eventsMap

(***************************************************************************)
(* removeEventListener                                                     *)
(***************************************************************************)
\* The loop of lines 124-130 from index i on: the list after it.
RECURSIVE RemoveFrom(_, _, _)
RemoveFrom(list, listener, i) ==
    IF i >= Len(list)
    THEN list
    ELSE IF SameListener(list[i + 1], listener)
         THEN SpliceRemove(list, i)
         ELSE RemoveFrom(list, listener, i + 1)

\* Lines 119-133 dropping the bucket whatever the scan found.
RemovedMapDropsBucket(eventMap, type, listener) == Delete(eventMap, type)

\* Lines 131-133 left out: the list stays under its key.
CleanedKeepsKey(eventMap, type, list) == Store(eventMap, type, list)

\* Lines 131-133: the map once the scanned list is back in it.
Cleaned(eventMap, type, list) ==
    IF Len(list) = 0 THEN Delete(eventMap, type) ELSE Store(eventMap, type, list)

\* The selected map after removeEventListener (lines 119-133).
RemovedMap(eventMap, type, listener) ==
    LET list == Lookup(eventMap, type)
    IN  IF ~ToBoolean(list)
        THEN eventMap
        ELSE Cleaned(eventMap, type, RemoveFrom(list.items, listener, 0))

removeEventListener(type, listener, useCapture) ==
    LET name == SelectMapName(useCapture)
    IN  /\ _captureEventsMap' =
               IF name = "_captureEventsMap"
               THEN RemovedMap(_captureEventsMap, type, listener)
               ELSE _captureEventsMap
        /\ _eventsMap' =
               IF name = "_eventsMap"
               THEN RemovedMap(_eventsMap, type, listener)
               ELSE _eventsMap

(***************************************************************************)
(* hasEventListener                                                        *)
(***************************************************************************)
\* Line 143 reading one map only.
hasEventListenerOneMap(type) == Lookup(_eventsMap, type)

\* The value of line 143.
hasEventListener(type) ==
    Or(Lookup(_eventsMap, type), Lookup(_captureEventsMap, type))

(***************************************************************************)
(* Event: the fields and methods dispatchEvent and _notifyListener use.    *)
(***************************************************************************)
null == "null"

\* new Event(type), with the phase its caller gave it.
NewEvent(type, eventPhase) ==
    [_type |-> type, _eventPhase |-> eventPhase,
     _isPropagationStopped |-> FALSE,
     _isPropagationImmediateStopped |-> FALSE,
     _isDefaultPrevented |-> FALSE,
     _target |-> null, _currentTarget |-> null,
     _bubbles |-> FALSE, data |-> null]

NoEvent == NewEvent("none", CAPTURING_PHASE + 1)

\* event._reset()
_reset(e) ==
    [e EXCEPT !._isPropagationStopped = FALSE,
              !._isPropagationImmediateStopped = FALSE,
              !._isDefaultPrevented = FALSE]

\* event._setCurrentTarget(t)
_setCurrentTarget(e, t) == [e EXCEPT !._currentTarget = t]

\* event.isDefaultPrevented()
isDefaultPrevented(e) == e._isDefaultPrevented

\* What a listener may call on the event it is given.
EventCalls == {"preventDefault", "stopPropagation", "stopImmediatePropagation"}

\* The event after a listener made the calls of `calls` on it.
AfterCalls(e, calls) ==
    [e EXCEPT !._isDefaultPrevented = @ \/ "preventDefault" \in calls,
              !._isPropagationStopped = @ \/ "stopPropagation" \in calls,
              !._isPropagationImmediateStopped =
                    @ \/ "stopImmediatePropagation" \in calls]

\* The Event objects: EventDispatcher.reuseEvent (line 176), the event a
\* caller makes for its dispatchEvent, and the event a listener makes for
\* its own.
EventNames == {"reuseEvent", "e1", "e2"}

\* new Event(""): its phase is the one a new Event has.
NewHeap ==
    [name \in EventNames |->
        IF name = "reuseEvent" THEN NewEvent("", CAPTURING_PHASE + 1) ELSE NoEvent]

(***************************************************************************)
(* constructor                                                             *)
(***************************************************************************)
\* this.target after the constructor ran with the argument targetArg.
constructor(targetArg) == IF targetArg # null THEN targetArg ELSE this

(***************************************************************************)
(* dispatchEvent and _notifyListener                                       *)
(***************************************************************************)
\* Lines 153-155 on a dispatcher whose target is t.
StampedFor(e, t) ==
    LET e1 == _reset(e)
        e2 == [e1 EXCEPT !._target = t]
    IN  _setCurrentTarget(e2, t)

\* Lines 153-155: the event as _notifyListener receives it.
Stamped(e) == StampedFor(e, target)

\* Line 160 without the test of the phase.
NotifyMapNameAnyPhase(e) == "_eventsMap"

\* Line 160: the map _notifyListener reads.
NotifyMapName(e) ==
    IF e._eventPhase = CAPTURING_PHASE THEN "_captureEventsMap" ELSE "_eventsMap"

\* Line 161: the key of eventMap[type].  `type` is no parameter, local or
\* member of _notifyListener: it is whatever the enclosing scopes give it.
ListKey(e) == ambientType

\* Line 169 testing either stop flag.
BreaksOnAnyStop(e) == e._isPropagationStopped \/ e._isPropagationImmediateStopped

\* Line 169: the test that leaves the loop.
Breaks(e) == e._isPropagationImmediateStopped

\* Line 173: the value _notifyListener returns.
Result(e) == Boolean(~isDefaultPrevented(e))

\* dispatchEvent is over: `value` goes back to its caller.
Returns(e, value, f) ==
    /\ event' = e
    /\ pc' = "returned"
    /\ frame' = f
    /\ call' = [op |-> "dispatchEvent", arg |-> e._type, note |-> "none",
                value |-> value]

\* dispatchEvent(e) up to the first listener call (lines 153-165).
dispatchEvent(e) ==
    LET ev == Stamped(e)
        name == NotifyMapName(ev)
        key == ListKey(ev)
        list == Lookup(MapOf(name), key)
    IN  /\ invoked' = <<>>
        /\ stopper' = -1
        /\ made' = {}
        /\ UNCHANGED <<registry, target, ambientType>>
        /\ IF key = Undeclared
           THEN Returns(ev, Thrown("ReferenceError"), NoFrame)
           ELSE IF ~ToBoolean(list)
           THEN Returns(ev, Boolean(TRUE), NoFrame)
           ELSE LET f == [eventMap |-> name, key |-> key,
                          length |-> Len(list.items), i |-> 0,
                          detached |-> FALSE]
                IN  IF f.i < f.length
                    THEN /\ event' = ev
                         /\ pc' = "loop"
                         /\ frame' = f
                         /\ call' = [op |-> "dispatchEvent", arg |-> ev._type,
                                     note |-> "running", value |-> undefined]
                    ELSE Returns(ev, Result(ev), f)

\* One turn of the loop of lines 166-172: the listener of list[i] runs,
\* finds its event as e, makes the calls of `calls` on it and comes back,
\* having done `did`.
NotifiedWith(e, calls, did) ==
    LET list == MapOf(frame.eventMap)[frame.key]
        eventBin == list[frame.i + 1]
        ev == AfterCalls(e, calls)
        f == [frame EXCEPT !.i = frame.i + 1]
    IN  /\ invoked' = Append(invoked, eventBin.listener)
        /\ stopper' = IF stopper = -1 /\ "stopImmediatePropagation" \in calls
                      THEN frame.i ELSE stopper
        /\ made' = made \cup did
        /\ UNCHANGED <<registry, target, ambientType>>
        /\ IF Breaks(ev)
           THEN Returns(ev, Result(ev), frame)
           ELSE IF f.i < f.length
           THEN /\ event' = ev
                /\ frame' = f
                /\ UNCHANGED <<pc, call>>
           ELSE Returns(ev, Result(ev), f)

\* The same, the listener making calls on its event and nothing else.
NotifyStep(calls) == NotifiedWith(event, calls, calls)

\* What a listener that throws leaves in `made`, and what it throws.
Fault == "fault"
ListenerFault == Thrown("ListenerFault")

\* Line 168 inside a try whose catch goes on with the loop.
FaultCaught(ev, f) ==
    LET g == [f EXCEPT !.i = f.i + 1]
    IN  IF g.i < g.length
        THEN /\ event' = ev
             /\ frame' = g
             /\ UNCHANGED <<pc, call>>
        ELSE Returns(ev, Result(ev), g)

\* Line 168 when the listener throws: neither _notifyListener nor
\* dispatchEvent has a try, so the call of dispatchEvent ends with the throw.
FaultPropagates(ev, f) == Returns(ev, ListenerFault, f)

\* One turn of the loop of lines 166-172 in which the listener of list[i]
\* makes the calls of `calls` on the event and then throws.
NotifyFaultStep(calls) ==
    LET list == MapOf(frame.eventMap)[frame.key]
        eventBin == list[frame.i + 1]
        ev == AfterCalls(event, calls)
    IN  /\ invoked' = Append(invoked, eventBin.listener)
        /\ stopper' = IF stopper = -1 /\ "stopImmediatePropagation" \in calls
                      THEN frame.i ELSE stopper
        /\ made' = made \cup calls \cup {Fault}
        /\ UNCHANGED <<registry, target, ambientType>>
        /\ FaultPropagates(ev, frame)

(***************************************************************************)
(* _notifyListener with listeners that call addEventListener and           *)
(* removeEventListener of the dispatcher that notifies them.               *)
(***************************************************************************)
NextMapOf(name) ==
    IF name = "_captureEventsMap" THEN _captureEventsMap' ELSE _eventsMap'

\* The array the local `list` refers to (line 161).  It is the array under
\* its key until line 132 deletes the key; from then on it is an array no
\* map holds, and it is empty, line 131 having found it so.
LiveList(f) == IF f.detached THEN <<>> ELSE MapOf(f.eventMap)[f.key]

\* Line 166 comparing i with the length of the list as it is now.
GoesOnLive(f, list) == f.i < Len(list)

\* Line 166: i < length, the length line 165 read before the first turn.
GoesOn(f, list) == f.i < f.length

\* Lines 167-168 when list[i] is undefined: reading eventBin.listener throws.
ReadFails(f) == f.i >= Len(LiveList(f))

\* What a listener did to the bucket that is being notified.
Mutation(op, listener, after) ==
    [op |-> op, listener |-> listener, at |-> Len(invoked) + 1, after |-> after]

IndexOf(items, listener) ==
    CHOOSE k \in 0..(Len(items) - 1) : items[k + 1].listener = listener

\* One turn of the loop of lines 166-172 once the listener of list[i] has
\* made its calls: `mutations` is what it did to the maps, which are in
\* their new state.
LiveTurn(calls, mutations) ==
    LET eventBin == LiveList(frame)[frame.i + 1]
        ev == AfterCalls(event, calls)
        gone == frame.key \notin DOMAIN NextMapOf(frame.eventMap)
        here == [frame EXCEPT !.detached = frame.detached \/ gone]
        f == [here EXCEPT !.i = frame.i + 1]
        list == IF f.detached THEN <<>> ELSE NextMapOf(f.eventMap)[f.key]
    IN  /\ invoked' = Append(invoked, eventBin.listener)
        /\ stopper' = IF stopper = -1 /\ "stopImmediatePropagation" \in calls
                      THEN frame.i ELSE stopper
        /\ made' = made \cup mutations
        /\ UNCHANGED <<target, ambientType>>
        /\ IF Breaks(ev)
           THEN Returns(ev, Result(ev), here)
           ELSE IF GoesOn(f, list)
           THEN /\ event' = ev
                /\ frame' = f
                /\ UNCHANGED <<pc, call>>
           ELSE Returns(ev, Result(ev), f)

\* The listener of list[i] changes nothing.
LiveQuiet(calls) ==
    /\ ~ReadFails(frame)
    /\ UNCHANGED registry
    /\ LiveTurn(calls, {})

\* The listener of list[i] registers `listener` for the type and the phase
\* that are being notified.
LiveAdd(calls, listener, thisObject, priority) ==
    LET useCapture == frame.eventMap = "_captureEventsMap"
        before == Lookup(MapOf(frame.eventMap), frame.key)
        after == NextMapOf(frame.eventMap)[frame.key]
        held == /\ ToBoolean(before)
                /\ \E k \in 1..Len(before.items) :
                      before.items[k].listener = listener
    IN  /\ ~ReadFails(frame)
        /\ addEventListener(frame.key, listener, thisObject, useCapture, priority)
        /\ SumLen(_eventsMap', DOMAIN _eventsMap')
             + SumLen(_captureEventsMap', DOMAIN _captureEventsMap')
                <= MaxLiveBindings
        /\ LiveTurn(calls,
                    IF held THEN {}
                    ELSE {Mutation("addEventListener", listener,
                                   IndexOf(after, listener) > frame.i)})

\* The listener of list[i] unregisters `listener` for the type and the
\* phase that are being notified.
LiveRemove(calls, listener) ==
    LET useCapture == frame.eventMap = "_captureEventsMap"
        before == Lookup(MapOf(frame.eventMap), frame.key)
        held == /\ ToBoolean(before)
                /\ \E k \in 1..Len(before.items) :
                      before.items[k].listener = listener
    IN  /\ ~ReadFails(frame)
        /\ removeEventListener(frame.key, listener, useCapture)
        /\ LiveTurn(calls,
                    IF held
                    THEN {Mutation("removeEventListener", listener,
                                   IndexOf(before.items, listener) > frame.i)}
                    ELSE {})

\* The turn in which list[i] is undefined: line 168 throws a TypeError,
\* which nothing catches.
LiveReadFails ==
    /\ ReadFails(frame)
    /\ UNCHANGED <<registry, target, ambientType, invoked, stopper, made>>
    /\ Returns(event, Thrown("TypeError"), frame)

(***************************************************************************)
(* dispatchEventWith, and listeners that dispatch.                         *)
(***************************************************************************)
\* A second dispatcher of the class, made by new EventDispatcher(): it is
\* its own target and nothing is registered on it.
other == "other"

TargetOf(who) == IF who = other THEN other ELSE target

\* The arguments dispatchEventWith is called with.
WithArgs ==
    {[type |-> "x", bubbles |-> FALSE, data |-> null],
     [type |-> "y", bubbles |-> TRUE, data |-> "d"]}

\* Line 184 taking an Event object of its own for a call made by a listener.
WithEventPerCall(byListener) == IF byListener THEN "e2" ELSE "reuseEvent"

\* Line 184: the Event object dispatchEventWith dispatches, whoever calls.
WithEvent(byListener) == "reuseEvent"

\* Lines 185-187.
Filled(e, a) ==
    [e EXCEPT !._type = a.type, !._bubbles = a.bubbles, !.data = a.data]

\* other.dispatchEvent(e): lines 153-155; eventMap[type] is undefined, the
\* maps of `other` being empty, and line 163 returns true.
OtherDispatched(e) == StampedFor(e, TargetOf(other))

\* What a listener leaves in `made` when it dispatches.
DispatchMark(who, same) ==
    IF who = other
    THEN IF same THEN "other.dispatchEvent(event)" ELSE "other.dispatchEvent(e2)"
    ELSE IF same THEN "dispatchEvent(event)" ELSE "dispatchEvent(e2)"

WithMark(who, a) ==
    IF who = other
    THEN IF a.type = "x" THEN "other.dispatchEventWith(x)"
                         ELSE "other.dispatchEventWith(y)"
    ELSE IF a.type = "x" THEN "dispatchEventWith(x)" ELSE "dispatchEventWith(y)"

NestedMarks ==
    {DispatchMark(who, same) : who \in {this, other}, same \in BOOLEAN}
        \cup {WithMark(who, a) : who \in {this, other}, a \in WithArgs}

\* The loop counter of _notifyListener being a field of the dispatcher.
ResumedFrameShared(top) == [top.frame EXCEPT !.i = frame.i]

\* Lines 165-166: length and i are locals of the call.
ResumedFrame(top) == top.frame

\* The listener of list[i] is entered and calls dispatchEvent of the
\* dispatcher that notifies it: with the Event object `name`, whose value is
\* e when the call begins.  The notification waits.
Enters(name, e, mark) ==
    LET eventBin == MapOf(frame.eventMap)[frame.key][frame.i + 1]
    IN  /\ stack' = <<[frame |-> frame,
                       invoked |-> Append(invoked, eventBin.listener),
                       stopper |-> stopper,
                       made |-> made \cup {mark},
                       call |-> call,
                       ev |-> running,
                       seen |-> event]>>
        /\ running' = name
        /\ dispatchEvent(e)
        /\ heap' = [heap EXCEPT ![name] = event']

\* The dispatchEvent a listener called is over: the listener makes the
\* calls of `calls` on its own event and comes back to line 169.
Resumes(calls) ==
    LET top == stack[1]
        ev == AfterCalls(heap[top.ev], calls)
        here == ResumedFrame(top)
        f == [here EXCEPT !.i = here.i + 1]
    IN  /\ invoked' = top.invoked
        /\ stopper' = IF top.stopper = -1 /\ "stopImmediatePropagation" \in calls
                      THEN here.i ELSE top.stopper
        /\ made' = top.made \cup calls \cup (made \cap NestedMarks)
        /\ running' = top.ev
        /\ stack' = <<>>
        /\ heap' = [heap EXCEPT ![top.ev] = ev]
        /\ UNCHANGED <<registry, target, ambientType>>
        /\ IF Breaks(ev)
           THEN Returns(ev, Result(ev), here)
           ELSE IF f.i < f.length
           THEN /\ event' = ev
                /\ frame' = f
                /\ pc' = "loop"
                /\ call' = top.call
           ELSE Returns(ev, Result(ev), f)

\* The listener of list[i] calls other.dispatchEvent with the Event object
\* `name`, whose value is e when the call begins, then makes the calls of
\* `calls` on its own event and comes back.
AsksOther(name, e, calls, mark) ==
    LET after == [heap EXCEPT ![name] = OtherDispatched(e)]
    IN  /\ NotifiedWith(after[running], calls, calls \cup {mark})
        /\ heap' = [after EXCEPT ![running] = event']
        /\ UNCHANGED <<running, stack>>

(***************************************************************************)
(* The callers.                                                            *)
(***************************************************************************)
\* A call that takes no event came back to its caller.
Settled ==
    /\ pc' = "returned"
    /\ UNCHANGED <<target, ambientType, event, frame, invoked, stopper, made>>
    /\ UNCHANGED nesting

\* The caller of the last call goes on; the event it dispatched, if any, is
\* not used again.
Continue ==
    /\ pc = "returned"
    /\ pc' = "idle"
    /\ call' = NoCall
    /\ event' = NoEvent
    /\ frame' = NoFrame
    /\ invoked' = <<>>
    /\ stopper' = -1
    /\ made' = {}
    /\ UNCHANGED <<registry, target, ambientType>>
    /\ UNCHANGED nesting

BucketOf(useCapture, type) == Lookup(MapOf(SelectMapName(useCapture)), type)

Holds(bucket, listener) ==
    /\ ToBoolean(bucket)
    /\ \E k \in 1..Len(bucket.items) : bucket.items[k].listener = listener

\* How a registration relates to the bucket it is made on.
AddNote(bucket, listener, thisObject, priority) ==
    IF ~Holds(bucket, listener) THEN "new"
    ELSE IF \E k \in 1..Len(bucket.items) :
                /\ bucket.items[k].listener = listener
                /\ bucket.items[k].thisObject # thisObject
                /\ bucket.items[k].priority # priority
         THEN "duplicate, other receiver and priority"
         ELSE "duplicate"

\* How a removal relates to the bucket it is made on.
RemoveNote(bucket, listener) ==
    IF ~ToBoolean(bucket) THEN "no bucket"
    ELSE IF ~Holds(bucket, listener) THEN "not found"
    ELSE IF Len(bucket.items) = 1 THEN "last removed"
    ELSE "removed"

Register(receivers, priorities, most) ==
    /\ pc = "idle"
    /\ \E type \in TypeKeys, listener \in Listeners, thisObject \in receivers,
          useCapture \in BOOLEAN, priority \in priorities :
          /\ addEventListener(type, listener, thisObject, useCapture, priority)
          /\ call' = [op |-> "addEventListener",
                      arg |-> <<type, listener, useCapture>>,
                      note |-> AddNote(BucketOf(useCapture, type), listener,
                                       thisObject, priority),
                      value |-> undefined]
    /\ SumLen(_eventsMap', DOMAIN _eventsMap')
         + SumLen(_captureEventsMap', DOMAIN _captureEventsMap') <= most
    /\ Settled

Unregister ==
    /\ pc = "idle"
    /\ \E type \in TypeKeys, listener \in Listeners, useCapture \in BOOLEAN :
          /\ removeEventListener(type, listener, useCapture)
          /\ call' = [op |-> "removeEventListener",
                      arg |-> <<type, listener, useCapture>>,
                      note |-> RemoveNote(BucketOf(useCapture, type), listener),
                      value |-> undefined]
    /\ Settled

HasListener ==
    /\ pc = "idle"
    /\ \E type \in TypeKeys :
          call' = [op |-> "hasEventListener", arg |-> type, note |-> "none",
                   value |-> hasEventListener(type)]
    /\ UNCHANGED registry
    /\ Settled

\* The events a caller can hand to dispatchEvent: a new one, or the one its
\* last dispatchEvent left.
Dispatch ==
    /\ pc = "idle"
    /\ \E type \in TypeKeys, eventPhase \in EventPhases :
          dispatchEvent(NewEvent(type, eventPhase))
    /\ UNCHANGED nesting

\* The caller dispatches the event of its last dispatchEvent once more.
Redispatch ==
    /\ pc = "returned"
    /\ call.op = "dispatchEvent"
    /\ dispatchEvent(event)
    /\ UNCHANGED nesting

Notify ==
    /\ pc = "loop"
    /\ \E calls \in SUBSET EventCalls : NotifyStep(calls)
    /\ UNCHANGED nesting

\* The listener of list[i] throws.
NotifyFault ==
    /\ pc = "loop"
    /\ \E calls \in SUBSET EventCalls : NotifyFaultStep(calls)
    /\ UNCHANGED nesting

\* The state after new EventDispatcher(targetArg).
Constructed(targetArg) ==
    /\ _eventsMap = EmptyMap
    /\ _captureEventsMap = EmptyMap
    /\ target = constructor(targetArg)
    /\ ambientType \in AmbientTypes
    /\ event = NoEvent
    /\ pc = "idle"
    /\ frame = NoFrame
    /\ invoked = <<>>
    /\ stopper = -1
    /\ made = {}
    /\ call = NoCall
    /\ heap = NewHeap
    /\ running = "none"
    /\ stack = <<>>

Init == Constructed(null)

Next ==
    \/ Register(DispatchReceivers, DispatchPriorities, MaxBindings)
    \/ Unregister
    \/ HasListener
    \/ Dispatch
    \/ Redispatch
    \/ Notify
    \/ Continue

Spec == Init /\ [][Next]_vars

NextRegistry ==
    \/ Register(Receivers, Priorities, MaxRegistryBindings)
    \/ Unregister
    \/ HasListener
    \/ Continue

\* Registration never reads `type`: one resolution of it stands for all.
InitRegistry ==
    /\ Init
    /\ ambientType = Undeclared

SpecRegistry == InitRegistry /\ [][NextRegistry]_vars

\* What a listener of the live specification calls on its event.
LiveCalls == {{}, {"stopImmediatePropagation"}}

\* A caller registers a listener for the type that is notified.
LiveRegister ==
    /\ pc = "idle"
    /\ \E listener \in Listeners, useCapture \in BOOLEAN,
          priority \in DispatchPriorities :
          /\ addEventListener(ambientType, listener, "r1", useCapture, priority)
          /\ call' = [op |-> "addEventListener",
                      arg |-> <<ambientType, listener, useCapture>>,
                      note |-> AddNote(BucketOf(useCapture, ambientType),
                                       listener, "r1", priority),
                      value |-> undefined]
    /\ SumLen(_eventsMap', DOMAIN _eventsMap')
         + SumLen(_captureEventsMap', DOMAIN _captureEventsMap')
            <= MaxLiveBindings
    /\ Settled

LiveDispatch ==
    /\ pc = "idle"
    /\ \E eventPhase \in EventPhases :
          dispatchEvent(NewEvent(ambientType, eventPhase))
    /\ UNCHANGED nesting

NotifyQuiet ==
    /\ pc = "loop"
    /\ \E calls \in LiveCalls : LiveQuiet(calls)
    /\ UNCHANGED nesting

NotifyAdd ==
    /\ pc = "loop"
    /\ \E calls \in LiveCalls, listener \in Listeners,
          priority \in DispatchPriorities :
          LiveAdd(calls, listener, "r1", priority)
    /\ UNCHANGED nesting

NotifyRemove ==
    /\ pc = "loop"
    /\ \E calls \in LiveCalls, listener \in Listeners :
          LiveRemove(calls, listener)
    /\ UNCHANGED nesting

NotifyReadFails ==
    /\ pc = "loop"
    /\ LiveReadFails
    /\ UNCHANGED nesting

LiveNotify ==
    \/ NotifyQuiet
    \/ NotifyAdd
    \/ NotifyRemove
    \/ NotifyReadFails

NextLive ==
    \/ LiveRegister
    \/ LiveDispatch
    \/ LiveNotify
    \/ Continue

\* `type` is a global that holds a type key: with no such global no
\* listener is ever called.
InitLive ==
    /\ Init
    /\ ambientType # Undeclared

SpecLive == InitLive /\ [][NextLive]_vars

\* A listener that is called returns, or throws.
SpecLiveFair == SpecLive /\ WF_vars(LiveNotify)

\* What a listener of the nesting specification calls on its event.
NestedCalls == {{}, {"preventDefault"}, {"stopImmediatePropagation"}}
NestedListeners == {"A", "B"}
\* The event a listener makes for the other dispatcher.
OtherEvents == {NewEvent("y", CAPTURING_PHASE + 1)}

\* A caller registers a listener for the type that is notified.
NestedRegister ==
    /\ pc = "idle"
    /\ \E listener \in NestedListeners, useCapture \in BOOLEAN :
          /\ addEventListener(ambientType, listener, "r1", useCapture, 0)
          /\ call' = [op |-> "addEventListener",
                      arg |-> <<ambientType, listener, useCapture>>,
                      note |-> AddNote(BucketOf(useCapture, ambientType),
                                       listener, "r1", 0),
                      value |-> undefined]
    /\ SumLen(_eventsMap', DOMAIN _eventsMap')
         + SumLen(_captureEventsMap', DOMAIN _captureEventsMap')
            <= MaxNestedBindings
    /\ Settled

\* A caller dispatches an event it made.
CallerDispatches ==
    /\ pc = "idle"
    /\ running' = "e1"
    /\ UNCHANGED stack
    /\ \E type \in TypeKeys, eventPhase \in EventPhases :
          dispatchEvent(NewEvent(type, eventPhase))
    /\ heap' = [heap EXCEPT ![running'] = event']

\* A caller calls dispatchEventWith (lines 183-189).
CallerDispatchesWith ==
    /\ pc = "idle"
    /\ running' = WithEvent(FALSE)
    /\ UNCHANGED stack
    /\ \E a \in WithArgs : dispatchEvent(Filled(heap[running'], a))
    /\ heap' = [heap EXCEPT ![running'] = event']

\* A listener makes calls on its event and nothing else.
ListenerCalls ==
    /\ pc = "loop"
    /\ \E calls \in NestedCalls : NotifyStep(calls)
    /\ heap' = [heap EXCEPT ![running] = event']
    /\ UNCHANGED <<running, stack>>

\* A listener dispatches the event it was given once more.
ListenerDispatchesSame ==
    /\ pc = "loop"
    /\ stack = <<>>
    /\ Enters(running, event, DispatchMark(this, TRUE))

\* A listener dispatches an event it made.
ListenerDispatchesNew ==
    /\ pc = "loop"
    /\ stack = <<>>
    /\ \E type \in TypeKeys, eventPhase \in EventPhases :
          Enters("e2", NewEvent(type, eventPhase), DispatchMark(this, FALSE))

\* A listener calls dispatchEventWith.
ListenerDispatchesWith ==
    /\ pc = "loop"
    /\ stack = <<>>
    /\ \E a \in WithArgs :
          Enters(WithEvent(TRUE), Filled(heap[WithEvent(TRUE)], a),
                 WithMark(this, a))

\* The dispatchEvent a listener called came back.
ListenerResumes ==
    /\ pc = "returned"
    /\ stack # <<>>
    /\ \E calls \in NestedCalls : Resumes(calls)

\* A listener calls dispatchEvent or dispatchEventWith of the other
\* dispatcher.
ListenerAsksOtherSame ==
    /\ pc = "loop"
    /\ stack = <<>>
    /\ \E calls \in NestedCalls :
          AsksOther(running, event, calls, DispatchMark(other, TRUE))

ListenerAsksOtherNew ==
    /\ pc = "loop"
    /\ stack = <<>>
    /\ \E calls \in NestedCalls, e \in OtherEvents :
          AsksOther("e2", e, calls, DispatchMark(other, FALSE))

ListenerAsksOtherWith ==
    /\ pc = "loop"
    /\ stack = <<>>
    /\ \E calls \in NestedCalls, a \in WithArgs :
          AsksOther(WithEvent(TRUE), Filled(heap[WithEvent(TRUE)], a), calls,
                    WithMark(other, a))

\* The caller of the outermost dispatchEvent goes on; the events it and its
\* listeners made are not used again, EventDispatcher.reuseEvent stays.
CallerContinues ==
    /\ pc = "returned"
    /\ stack = <<>>
    /\ pc' = "idle"
    /\ call' = NoCall
    /\ event' = NoEvent
    /\ frame' = NoFrame
    /\ invoked' = <<>>
    /\ stopper' = -1
    /\ made' = {}
    /\ heap' = [heap EXCEPT !["e1"] = NoEvent, !["e2"] = NoEvent]
    /\ running' = "none"
    /\ UNCHANGED <<registry, target, ambientType, stack>>

NextNested ==
    \/ NestedRegister
    \/ CallerDispatches
    \/ CallerDispatchesWith
    \/ ListenerCalls
    \/ ListenerDispatchesSame
    \/ ListenerDispatchesNew
    \/ ListenerDispatchesWith
    \/ ListenerResumes
    \/ ListenerAsksOtherSame
    \/ ListenerAsksOtherNew
    \/ ListenerAsksOtherWith
    \/ CallerContinues

\* The dispatcher is made with a delegate; `type` is a global that holds a
\* type key.
InitNested ==
    /\ Constructed("delegate")
    /\ ambientType # Undeclared

SpecNested == InitNested /\ [][NextNested]_vars

\* The dispatcher with listeners that may throw.
NextFault ==
    \/ Next
    \/ NotifyFault

SpecFault == Init /\ [][NextFault]_vars

(***************************************************************************)
(* Vocabulary of the properties.                                           *)
(***************************************************************************)
MapNames == {"_eventsMap", "_captureEventsMap"}

\* The bindings of a looked-up bucket; none when there is no bucket.
Items(bucket) == IF ToBoolean(bucket) THEN bucket.items ELSE <<>>

ListenersOf(items) == [k \in 1..Len(items) |-> items[k].listener]

Range(seq) == {seq[k] : k \in 1..Len(seq)}

IsTrue(value) == value.tag = "boolean" /\ value.b
IsFalse(value) == value.tag = "boolean" /\ ~value.b

\* A dispatchEvent call is over: it returned or threw.
DispatchEnded == pc = "returned" /\ call.op = "dispatchEvent"

\* The running or the last _notifyListener found a list to walk.
Walking == frame.eventMap # "none"
Walked == MapOf(frame.eventMap)[frame.key]

\* The bucket the event's own type and phase select.
OwnBucket == Lookup(MapOf(NotifyMapName(event)), event._type)

PriorityIn(items, listener) ==
    (CHOOSE bin \in Range(items) : bin.listener = listener).priority

RegisteredIn(name, listener) ==
    \E type \in TypeKeys : Holds(Lookup(MapOf(name), type), listener)

Registered(type) ==
    \E name \in MapNames : Len(Items(Lookup(MapOf(name), type))) > 0

(***************************************************************************)
(* C1.  Bindings of equal priority are stored, and so notified, in the     *)
(* order they were registered: a registration puts the new binding after   *)
(* every binding of its priority that the bucket already holds.            *)
(* The code does not: line 91 takes the first index whose priority is <=   *)
(* the new one, which is the index of the first equal binding.             *)
(***************************************************************************)
C1_EqualPriorityKeepsRegistrationOrder ==
    [][\A name \in MapNames, type \in TypeKeys :
          LET old == Items(Lookup(MapOf(name), type))
              new == Items(Lookup(NextMapOf(name), type))
          IN  Len(new) = Len(old) + 1 =>
                \A k \in 1..Len(new) :
                    (\A j \in 1..Len(old) : old[j].listener # new[k].listener) =>
                        \A j \in 1..Len(new) :
                            new[j].priority = new[k].priority => j <= k]_vars

(***************************************************************************)
(* C2.  A dispatchEvent of an event that is not in the capture phase       *)
(* notifies the listeners registered with useCapture=false for the event's *)
(* own type: when no listener stopped immediately, all of them.            *)
(* The code does not: the list is looked up under `type`, not event._type. *)
(***************************************************************************)
C2_ListenersOfEventTypeNotified ==
    (DispatchEnded /\ event._eventPhase # CAPTURING_PHASE /\ stopper = -1) =>
        \A bin \in Range(Items(Lookup(_eventsMap, event._type))) :
            bin.listener \in Range(invoked)

(***************************************************************************)
(* C3.  Every bucket is in order of non-increasing priority, and the       *)
(* listeners a notification calls are called in that order.                *)
(***************************************************************************)
SortedByPriority(items) ==
    \A j, k \in 1..Len(items) : j < k => items[j].priority >= items[k].priority

C3_BucketsSortedByPriority ==
    /\ \A name \in MapNames, type \in TypeKeys :
          SortedByPriority(Items(Lookup(MapOf(name), type)))
    /\ Walking =>
          \A j, k \in 1..Len(invoked) :
              j < k => PriorityIn(Walked, invoked[j]) >= PriorityIn(Walked, invoked[k])

C3_Witness ==
    /\ DispatchEnded
    /\ Len(invoked) = 3
    /\ PriorityIn(Walked, invoked[1]) > PriorityIn(Walked, invoked[3])

(***************************************************************************)
(* C4.  No bucket holds two bindings of one listener, and a registration   *)
(* of a listener its bucket already holds changes neither map.             *)
(***************************************************************************)
NoDuplicate ==
    \A name \in MapNames, type \in TypeKeys :
        LET items == Items(Lookup(MapOf(name), type))
        IN  \A j, k \in 1..Len(items) :
                j # k => items[j].listener # items[k].listener

DuplicateNotes == {"duplicate", "duplicate, other receiver and priority"}

C4_OneBindingPerListener ==
    /\ []NoDuplicate
    /\ [][(pc = "idle" /\ call'.op = "addEventListener"
              /\ call'.note \in DuplicateNotes) => UNCHANGED registry]_vars

C4_Witness ==
    /\ pc = "returned"
    /\ call.op = "addEventListener"
    /\ call.note = "duplicate, other receiver and priority"

(***************************************************************************)
(* C5.  dispatchEvent returns false exactly when a listener it called      *)
(* prevented default, and returns true when the event's type has no bucket *)
(* in the selected map or when no listener it called prevented default.    *)
(* The code does not: see C2; with `type` undeclared it returns nothing.   *)
(***************************************************************************)
C5_DispatchResult ==
    DispatchEnded =>
        /\ IsFalse(call.value) <=> "preventDefault" \in made
        /\ ~ToBoolean(OwnBucket) => IsTrue(call.value)
        /\ "preventDefault" \notin made => IsTrue(call.value)

(***************************************************************************)
(* C6.  A notification calls the listeners of the list it walks in stored  *)
(* order, up to and including the first one that stops immediately, all of *)
(* them when none does, whatever else they set; and it returns whether     *)
(* default is not prevented.                                               *)
(***************************************************************************)
Prefix(seq, n) == SubSeq(seq, 1, n)

C6_NotifiesPrefixUntilImmediateStop ==
    Walking =>
        /\ pc = "loop" =>
              /\ stopper = -1
              /\ invoked = Prefix(ListenersOf(Walked), frame.i)
        /\ DispatchEnded =>
              /\ invoked = Prefix(ListenersOf(Walked),
                                  IF stopper = -1 THEN Len(Walked) ELSE stopper + 1)
              /\ IsTrue(call.value) <=> ~event._isDefaultPrevented
              /\ IsFalse(call.value) <=> "preventDefault" \in made

C6_Witness ==
    /\ DispatchEnded
    /\ Walking
    /\ Len(Walked) = 3
    /\ stopper = 1
    /\ invoked = Prefix(ListenersOf(Walked), 2)
    /\ made = {"preventDefault", "stopPropagation", "stopImmediatePropagation"}
    /\ IsFalse(call.value)

(***************************************************************************)
(* C7.  A notification of an event that is not in the capture phase calls  *)
(* only listeners registered with useCapture=false, and one of an event in *)
(* the capture phase only listeners registered with useCapture=true.       *)
(***************************************************************************)
C7_PhaseIsolation ==
    \A k \in 1..Len(invoked) :
        IF event._eventPhase = CAPTURING_PHASE
        THEN RegisteredIn("_captureEventsMap", invoked[k])
        ELSE RegisteredIn("_eventsMap", invoked[k])

C7_Witness ==
    /\ DispatchEnded
    /\ Walking
    /\ event._eventPhase # CAPTURING_PHASE
    /\ invoked = ListenersOf(Walked)
    /\ \E listener \in Listeners :
          /\ Holds(Lookup(_captureEventsMap, frame.key), listener)
          /\ ~RegisteredIn("_eventsMap", listener)
          /\ listener \notin Range(invoked)

(***************************************************************************)
(* C8.  No key of either map maps to an empty list.                        *)
(***************************************************************************)
C8_NoEmptyBucket ==
    \A name \in MapNames :
        \A type \in DOMAIN MapOf(name) : Len(MapOf(name)[type]) > 0

C8_Witness ==
    /\ pc = "returned"
    /\ call.op = "removeEventListener"
    /\ call.note = "last removed"
    /\ \E name \in MapNames : DOMAIN MapOf(name) # TypeKeys

(***************************************************************************)
(* C9.  hasEventListener(type) is truthy exactly when a binding is         *)
(* registered for the type in one of the two maps, and a call of it        *)
(* changes neither map.                                                    *)
(***************************************************************************)
C9_HasListenerIffRegistered ==
    /\ [](\A type \in TypeKeys :
              ToBoolean(hasEventListener(type)) <=> Registered(type))
    /\ []((pc = "returned" /\ call.op = "hasEventListener") =>
              (ToBoolean(call.value) <=> Registered(call.arg)))
    /\ [][(pc = "idle" /\ call'.op = "hasEventListener") =>
              UNCHANGED registry]_vars

C9_Witness ==
    /\ pc = "returned"
    /\ call.op = "hasEventListener"
    /\ ToBoolean(call.value)
    /\ call.arg \notin DOMAIN _eventsMap
    /\ call.arg \in DOMAIN _captureEventsMap

(***************************************************************************)
(* C10.  The first listener of every dispatchEvent finds the three flags   *)
(* cleared, and a dispatchEvent whose listeners make no call on the event  *)
(* returns true after calling every listener of the event's bucket,        *)
(* whatever the event's last dispatch left.                                *)
(* The code does not: see C2; with `type` undeclared it returns nothing.   *)
(***************************************************************************)
FlagsClear(e) ==
    /\ ~e._isPropagationStopped
    /\ ~e._isPropagationImmediateStopped
    /\ ~e._isDefaultPrevented

C10_FlagsClearedEveryDispatch ==
    /\ (pc = "loop" /\ invoked = <<>>) => FlagsClear(event)
    /\ (DispatchEnded /\ made = {}) =>
          /\ IsTrue(call.value)
          /\ invoked = ListenersOf(Items(OwnBucket))

(***************************************************************************)
(* C14.  addEventListener and removeEventListener change no bucket but the *)
(* one of the given type in the map useCapture selects; so a listener      *)
(* bound for one type in both maps keeps the one binding when the other is *)
(* removed.                                                                *)
(***************************************************************************)
MapNameFor(useCapture) == IF useCapture THEN "_captureEventsMap" ELSE "_eventsMap"

OtherMapName(name) ==
    IF name = "_captureEventsMap" THEN "_eventsMap" ELSE "_captureEventsMap"

RegistryCalls == {"addEventListener", "removeEventListener"}

C14_OnlySelectedBucketChanges ==
    [][(pc = "idle" /\ call'.op \in RegistryCalls) =>
          LET type == call'.arg[1]
              listener == call'.arg[2]
              selected == MapNameFor(call'.arg[3])
          IN  /\ \A name \in MapNames, t \in TypeKeys :
                    <<name, t>> # <<selected, type>> =>
                        Lookup(NextMapOf(name), t) = Lookup(MapOf(name), t)
              /\ Holds(Lookup(MapOf(OtherMapName(selected)), type), listener) =>
                    Holds(Lookup(NextMapOf(OtherMapName(selected)), type), listener)]_vars

C14_Witness ==
    /\ pc = "returned"
    /\ call.op = "removeEventListener"
    /\ call.note \in {"removed", "last removed"}
    /\ ~Holds(Lookup(MapOf(MapNameFor(call.arg[3])), call.arg[1]), call.arg[2])
    /\ Holds(Lookup(MapOf(OtherMapName(MapNameFor(call.arg[3]))), call.arg[1]),
             call.arg[2])

(***************************************************************************)
(* C16.  removeEventListener for a type the selected map has no bucket of, *)
(* or for a listener the bucket does not hold, throws nothing and leaves   *)
(* both maps, the order of the bucket included, as they were.              *)
(***************************************************************************)
AbsentNotes == {"no bucket", "not found"}

C16_AbsentRemovalIsNoOp ==
    [][(pc = "idle" /\ call'.op = "removeEventListener"
            /\ call'.note \in AbsentNotes) =>
          /\ UNCHANGED registry
          /\ call'.value.tag # "throw"]_vars

C16_Witness ==
    /\ pc = "returned"
    /\ call.op = "removeEventListener"
    /\ call.note = "not found"
    /\ Len(Items(Lookup(MapOf(MapNameFor(call.arg[3])), call.arg[1]))) = 2

(***************************************************************************)
(* C15.  When a listener throws during a notification, dispatchEvent ends  *)
(* with that throw instead of a boolean, and no binding after the throwing *)
(* one has been called.                                                    *)
(***************************************************************************)
C15_ListenerFaultPropagates ==
    Fault \in made =>
        /\ DispatchEnded
        /\ call.value = ListenerFault
        /\ invoked = Prefix(ListenersOf(Walked), frame.i + 1)

C15_Witness ==
    /\ DispatchEnded
    /\ Fault \in made
    /\ call.value = ListenerFault
    /\ Len(Walked) = 3
    /\ frame.i = 1
    /\ Len(invoked) = 2

(***************************************************************************)
(* Vocabulary of the properties about listeners that change the bucket     *)
(* they are notified from.                                                 *)
(***************************************************************************)
\* The bucket of the type and the phase of the running or the last
\* notification, as the map holds it now.
NotifiedBucket == Items(Lookup(MapOf(frame.eventMap), frame.key))

\* The dispatchEvent is over and _notifyListener came to its return.
EndedNormally == DispatchEnded /\ Walking /\ call.value.tag = "boolean"

\* The listeners called after the call number `at`.
CalledAfter(at) == Range(SubSeq(invoked, at + 1, Len(invoked)))

Times(listener) == Cardinality({k \in 1..Len(invoked) : invoked[k] = listener})

Adds == {m \in made : m.op = "addEventListener"}
Removes == {m \in made : m.op = "removeEventListener"}

(***************************************************************************)
(* C17.  _notifyListener itself never throws: at every turn of its loop,   *)
(* also after a listener unregistered itself or another binding of the     *)
(* bucket, list[i] is a binding.                                           *)
(* The code does not: the loop runs to the length line 165 read before the *)
(* first listener, while line 127 shortens the very array it walks.        *)
(***************************************************************************)
C17_LoopReadsExistingBinding ==
    /\ pc = "loop" => frame.i < Len(LiveList(frame))
    /\ DispatchEnded => call.value # Thrown("TypeError")

(***************************************************************************)
(* C18.  A binding a listener unregisters before it was called is not      *)
(* called in the rest of the notification, and a binding a listener        *)
(* registers for the notified type and phase behind the position being     *)
(* notified is called later in the same notification (when the loop comes  *)
(* to its end with no immediate stop and the binding is still there).      *)
(* The code does not do the second: see C17, the loop stops at the length  *)
(* the list had before the first listener.                                 *)
(***************************************************************************)
C18_NotifiesLiveBucket ==
    /\ \A m \in Removes :
          (m.after /\ \A a \in Adds : a.listener = m.listener => a.at < m.at) =>
              m.listener \notin CalledAfter(m.at)
    /\ (EndedNormally /\ stopper = -1) =>
          \A m \in Adds :
              (/\ m.after
               /\ \A r \in Removes : r.at < m.at
               /\ \E k \in 1..Len(NotifiedBucket) :
                     NotifiedBucket[k].listener = m.listener) =>
                  m.listener \in CalledAfter(m.at)

(***************************************************************************)
(* C19.  When a notification comes to its end with no immediate stop,      *)
(* every binding that was in the bucket from its start to its end has been *)
(* called exactly once, whatever the listeners registered or unregistered  *)
(* meanwhile.                                                              *)
(* The code does not: the loop walks the live array by index, so a splice  *)
(* before the index makes it skip a binding or call one again.             *)
(***************************************************************************)
C19_StayingBindingNotifiedOnce ==
    (EndedNormally /\ stopper = -1) =>
        \A k \in 1..Len(NotifiedBucket) :
            (\A m \in made : m.listener # NotifiedBucket[k].listener) =>
                Times(NotifiedBucket[k].listener) = 1

(***************************************************************************)
(* C20.  A notification calls at most as many listeners as the list held   *)
(* when it started, whatever the listeners register meanwhile; and when    *)
(* every listener comes back, dispatchEvent ends.                          *)
(***************************************************************************)
C20_AtMostInitialLengthCalls ==
    /\ [](Walking => Len(invoked) <= frame.length)
    /\ (pc = "loop") ~> DispatchEnded

C20_Witness ==
    /\ EndedNormally
    /\ Len(invoked) = frame.length
    /\ Len(NotifiedBucket) > frame.length
    /\ frame.length = 2
    /\ Adds # {}

(***************************************************************************)
(* Vocabulary of the properties about listeners that dispatch.             *)
(***************************************************************************)
\* A dispatchEvent waits for the one its listener called.
Waiting == stack # <<>>

\* The dispatchEvent calls the listeners of the running or the last
\* dispatchEvent made.
Nested == made \cap NestedMarks

SameEventMarks == {DispatchMark(who, TRUE) : who \in {this, other}}
WithMarks == {WithMark(who, a) : who \in {this, other}, a \in WithArgs}

\* None of them was given the Event object of the dispatchEvent itself.
OnlyOtherEvents ==
    /\ made \cap SameEventMarks = {}
    /\ running = "reuseEvent" => made \cap WithMarks = {}

(***************************************************************************)
(* C11.  dispatchEvent sets the event's target and currentTarget to the    *)
(* dispatcher's declared target before the first listener is called, and   *)
(* the event's target stays that until the dispatchEvent is over, whatever *)
(* the listeners do.                                                       *)
(* The code does not keep it: a listener that hands the event it was given *)
(* to dispatchEvent of another dispatcher has it stamped again, lines      *)
(* 153-155 writing into the object they are given.                         *)
(***************************************************************************)
C11_TargetStampedOnce ==
    /\ (pc = "loop" /\ invoked = <<>>) =>
          /\ event._target = target
          /\ event._currentTarget = target
    /\ (pc = "loop" \/ DispatchEnded) => event._target = target

(***************************************************************************)
(* C12.  A dispatchEventWith that a listener of a dispatchEventWith calls, *)
(* on the same or on another dispatcher, writes into the one Event object  *)
(* both use: the listeners the outer call still has to call find the type, *)
(* bubbles, data and target of the nested call, and the outer loop's test  *)
(* of line 169 reads the flags the nested call left.                       *)
(***************************************************************************)
C12_NestedWithOverwritesSharedEvent ==
    /\ [](\A who \in {this, other}, a \in WithArgs :
             (/\ pc = "loop"
              /\ ~Waiting
              /\ running = "reuseEvent"
              /\ Nested = {WithMark(who, a)}) =>
                 /\ event._type = a.type
                 /\ event._bubbles = a.bubbles
                 /\ event.data = a.data
                 /\ event._target = TargetOf(who))
    /\ []((pc = "returned" /\ Waiting /\ stack[1].ev = running) =>
              heap[stack[1].ev] = event)
    /\ [][(/\ Waiting
           /\ stack' = <<>>
           /\ stack[1].ev = running
           /\ event._isPropagationImmediateStopped) =>
              /\ pc' = "returned"
              /\ invoked' = stack[1].invoked]_vars

C12_Witness ==
    /\ pc = "loop"
    /\ ~Waiting
    /\ running = "reuseEvent"
    /\ made = {"dispatchEventWith(y)"}
    /\ call.arg = "x"
    /\ event._type = "y"
    /\ event._bubbles
    /\ event._isDefaultPrevented

(***************************************************************************)
(* C13.  A dispatchEvent that a listener calls with another Event object   *)
(* than the one it was given, on the same or on another dispatcher, is     *)
(* over before the outer loop goes on; it leaves the outer event as it     *)
(* was, and the outer call calls the listeners and returns the value it    *)
(* would have without it.                                                  *)
(***************************************************************************)
C13_NestedDispatchIsolated ==
    /\ []((Waiting /\ stack[1].ev # running) =>
              heap[stack[1].ev] = stack[1].seen)
    /\ [][Waiting =>
              /\ stack' # <<>> => stack' = stack
              /\ stack' = <<>> => (pc = "returned" /\ call.note = "none")
              /\ (stack' = <<>> /\ stack[1].ev # running) =>
                    \E calls \in NestedCalls :
                        event' = AfterCalls(stack[1].seen, calls)]_vars
    /\ []((DispatchEnded /\ ~Waiting /\ Walking /\ OnlyOtherEvents) =>
              /\ stopper < Len(Walked)
              /\ Len(invoked) <= Len(Walked)
              /\ invoked = Prefix(ListenersOf(Walked),
                                  IF stopper = -1 THEN Len(Walked) ELSE stopper + 1)
              /\ IsFalse(call.value) <=> "preventDefault" \in made
              /\ IsTrue(call.value) <=> "preventDefault" \notin made
              /\ event._target = target
              /\ event._currentTarget = target)

C13_Witness ==
    /\ DispatchEnded
    /\ ~Waiting
    /\ running = "e1"
    /\ made = {"dispatchEvent(e2)"}
    /\ Len(invoked) = 2
    /\ IsTrue(call.value)
    /\ heap["e2"]._isDefaultPrevented
    /\ heap["e2"]._isPropagationImmediateStopped

====
